---- MODULE Spec2Model ----
(***************************************************************************)
(* Model of the Delta Migration API (src/main.py): the shared sync_state,  *)
(* the POST /sync and GET /status handlers that run on the event loop, and *)
(* the job body run_sync_background that runs on a worker thread.          *)
(*                                                                         *)
(* Text is modelled as a sequence of one-character strings, so that strip, *)
(* lower, split, slicing and substring search are computed as Python       *)
(* computes them.  A Python None is the empty sequence and a present value *)
(* x is <<x>>; a message f"... {n} ..." is the record [text, arg].         *)
(***************************************************************************)
EXTENDS Integers, Sequences, FiniteSets, TLC

(***************************************************************************)
(* Bounds of the model.                                                    *)
(***************************************************************************)
MaxJobs == 2
MaxLines == 2
MaxTotal == 2

(***************************************************************************)
(* Program constants.                                                      *)
(***************************************************************************)
NameLimit == 100
PercentCap == 99
MinFreeGbHundredths == 50
MbPerGb == 1024

None == <<>>
Some(x) == <<x>>

NoProgress == 0

(***************************************************************************)
(* Text helpers.                                                           *)
(***************************************************************************)
UpperChars == <<"A","B","C","D","E","F","G","H","I","J","K","L","M","N","O","P","Q","R","S","T","U","V","W","X","Y","Z">>
LowerChars == <<"a","b","c","d","e","f","g","h","i","j","k","l","m","n","o","p","q","r","s","t","u","v","w","x","y","z">>
DigitChars == <<"0","1","2","3","4","5","6","7","8","9">>

Whitespace == {" ", "\n"}

LowerChar(c) ==
    IF \E i \in 1..Len(UpperChars) : UpperChars[i] = c
    THEN LowerChars[CHOOSE i \in 1..Len(UpperChars) : UpperChars[i] = c]
    ELSE c

\* str.lower()
Lower(s) == [i \in 1..Len(s) |-> LowerChar(s[i])]

\* needle in s
Contains(s, needle) ==
    \E i \in 0..(Len(s) - Len(needle)) : SubSeq(s, i + 1, i + Len(needle)) = needle

\* str.strip(): whitespace removed at both ends
Strip(s) ==
    LET keep == {i \in 1..Len(s) : s[i] \notin Whitespace}
    IN  IF keep = {} THEN <<>>
        ELSE SubSeq(s, CHOOSE i \in keep : \A k \in keep : i <= k,
                       CHOOSE i \in keep : \A k \in keep : i >= k)

\* s.startswith(' ')
StartsWithSpace(s) == Len(s) > 0 /\ s[1] = " "

\* s.endswith('/')
EndsWithSlash(s) == Len(s) > 0 /\ s[Len(s)] = "/"

\* s[:100]
Truncate(s) == SubSeq(s, 1, IF Len(s) < NameLimit THEN Len(s) ELSE NameLimit)

\* s.split(sep) for a one-character separator: the pieces between the
\* separators, the k-th piece running from behind separator k-1 to before
\* separator k
Split(s, sep) ==
    LET hits == {i \in 1..Len(s) : s[i] = sep}
        at(k) == IF k = 0 THEN 0
                 ELSE IF k > Cardinality(hits) THEN Len(s) + 1
                 ELSE CHOOSE h \in hits : Cardinality({x \in hits : x < h}) = k - 1
    IN  [k \in 1..(Cardinality(hits) + 1) |-> SubSeq(s, at(k - 1) + 1, at(k) - 1)]

\* ''.join(lines)
RECURSIVE Join(_)
Join(lines) == IF lines = <<>> THEN <<>> ELSE Head(lines) \o Join(Tail(lines))

DigitValue(c) == (CHOOSE i \in 1..Len(DigitChars) : DigitChars[i] = c) - 1

IsDigit(c) == \E i \in 1..Len(DigitChars) : DigitChars[i] = c

\* int(s) succeeds: a non-empty run of decimal digits
IntParses(s) == Len(s) > 0 /\ \A i \in 1..Len(s) : IsDigit(s[i])

RECURSIVE IntValue(_)
IntValue(s) ==
    IF s = <<>> THEN 0
    ELSE 10 * IntValue(SubSeq(s, 1, Len(s) - 1)) + DigitValue(s[Len(s)])

\* Python round(num / den) for num >= 0, den > 0: ties go to the even integer
RoundHalfEven(num, den) ==
    LET q == num \div den
        r == num % den
    IN  IF 2 * r < den THEN q
        ELSE IF 2 * r > den THEN q + 1
        ELSE IF q % 2 = 0 THEN q ELSE q + 1

Min(a, b) == IF a < b THEN a ELSE b

(***************************************************************************)
(* Pure parts of run_sync_background.                                      *)
(***************************************************************************)
Msg(text, arg) == [text |-> text, arg |-> arg]

\* line 187: a stdout line reports a completed item
Qualifies(line) ==
    LET line_stripped == Strip(line)
    IN  /\ line_stripped # <<>>
        /\ ~StartsWithSpace(line_stripped)
        /\ ~EndsWithSlash(line_stripped)

\* line 194
Percentage(files_completed, total_files) ==
    Min(PercentCap, RoundHalfEven(files_completed * 100, total_files))

NoSpaceLeft == <<"n","o"," ","s","p","a","c","e"," ","l","e","f","t">>
TransferredLabel == <<"N","u","m","b","e","r"," ","o","f"," ","r","e","g","u","l","a","r"," ","f","i","l","e","s"," ","t","r","a","n","s","f","e","r","r","e","d",":">>

\* ClassifyOutcome with the stderr test made case-sensitive
ClassifyOutcomeCaseSensitive(returncode, stderr) ==
    IF returncode = 0
    THEN [status |-> "success", message |-> Msg("Sync completed", 0), warnings |-> <<>>]
    ELSE IF returncode = 3
    THEN [status |-> "failed", message |-> Msg("Permission denied", 0), warnings |-> <<>>]
    ELSE IF returncode = 11
    THEN [status |-> "failed",
          message |-> IF Contains(stderr, NoSpaceLeft)
                      THEN Msg("Disk full", 0) ELSE Msg("Disk I/O error", 0),
          warnings |-> <<>>]
    ELSE IF returncode = 23
    THEN [status |-> "warning", message |-> Msg("Partial transfer - some files failed", 0),
          warnings |-> <<"Some files had errors">>]
    ELSE IF returncode = 24
    THEN [status |-> "warning", message |-> Msg("Files vanished during sync", 0),
          warnings |-> <<"Some files were deleted during sync">>]
    ELSE [status |-> "failed", message |-> Msg("Rsync failed with code", returncode),
          warnings |-> <<>>]

\* lines 204-225: (status, message, warnings) from the exit code and stderr
ClassifyOutcome(returncode, stderr) ==
    IF returncode = 0
    THEN [status |-> "success", message |-> Msg("Sync completed", 0), warnings |-> <<>>]
    ELSE IF returncode = 3
    THEN [status |-> "failed", message |-> Msg("Permission denied", 0), warnings |-> <<>>]
    ELSE IF returncode = 11
    THEN [status |-> "failed",
          message |-> IF Contains(Lower(stderr), NoSpaceLeft)
                      THEN Msg("Disk full", 0) ELSE Msg("Disk I/O error", 0),
          warnings |-> <<>>]
    ELSE IF returncode = 23
    THEN [status |-> "warning", message |-> Msg("Partial transfer - some files failed", 0),
          warnings |-> <<"Some files had errors">>]
    ELSE IF returncode = 24
    THEN [status |-> "warning", message |-> Msg("Files vanished during sync", 0),
          warnings |-> <<"Some files were deleted during sync">>]
    ELSE [status |-> "failed", message |-> Msg("Rsync failed with code", returncode),
          warnings |-> <<>>]

\* lines 228-235: files_transferred after the first n lines of the loop; a
\* label line whose field parses assigns, every other line leaves the value
ScanTransferred(lines) ==
    LET after[n \in 0..Len(lines)] ==
            IF n = 0 THEN 0
            ELSE IF /\ Contains(lines[n], TransferredLabel)
                    /\ IntParses(Strip(Split(lines[n], ":")[2]))
            THEN IntValue(Strip(Split(lines[n], ":")[2]))
            ELSE after[n - 1]
    IN  after[Len(lines)]

\* lines 227-235
ExtractTransferred(result_stdout, stderr) ==
    ScanTransferred(Split(result_stdout \o stderr, "\n"))

\* lines 62-73: free_gb in hundredths of a GB; a failed query reports zero
FreeGb(query_ok, free_mb) ==
    IF query_ok THEN RoundHalfEven(free_mb * 100, MbPerGb) ELSE 0

(***************************************************************************)
(* Inputs: what the file system, the disk and the child process may do.    *)
(***************************************************************************)
FileLine == <<"a",".","t","x","t","\n">>
StatsLine == <<" "," ","1"," ","1","0","0","%","\n">>
DirLine == <<"d","/","\n">>
BlankLine == <<"\n">>
CountLine == <<"N","u","m","b","e","r"," ","o","f"," ","r","e","g","u","l","a","r"," ","f","i","l","e","s"," ","t","r","a","n","s","f","e","r","r","e","d",":"," ","2","\n">>
\* the count as the tool prints it from a thousand on
CommaCountLine == <<"N","u","m","b","e","r"," ","o","f"," ","r","e","g","u","l","a","r"," ","f","i","l","e","s"," ","t","r","a","n","s","f","e","r","r","e","d",":"," ","1",",","2","3","4","\n">>

StdoutLines == {FileLine, StatsLine, DirLine, BlankLine, CountLine, CommaCountLine}

StderrTexts ==
    { <<>>,
      <<"N","o"," ","s","p","a","c","e"," ","l","e","f","t"," ","o","n"," ","d","e","v","i","c","e","\n">>,
      <<"N","O"," ","S","P","A","C","E"," ","L","E","F","T","\n">>,
      <<"n","o"," ","s","p","a","c","e","\n">> }

ExitCodes == {0, 3, 11, 23, 24, 99}

\* free space at the destination, in MiB
FreeMbValues == {0, 256, 512, 4096}

ProbeResults == {"ok", "permission", "oserror"}

\* what the setup of one run meets: tool and source present, source empty,
\* mkdir, write probe, disk query and free space, Popen
SetupInputs ==
    [tool : BOOLEAN, src : BOOLEAN, empty : BOOLEAN, mkdir_ok : BOOLEAN,
     probe : ProbeResults, query_ok : BOOLEAN, free_mb : FreeMbValues, popen_ok : BOOLEAN]

GoodSetup ==
    [tool |-> TRUE, src |-> TRUE, empty |-> FALSE, mkdir_ok |-> TRUE, probe |-> "ok",
     query_ok |-> TRUE, free_mb |-> 4096, popen_ok |-> TRUE]

JobIds == 1..MaxJobs

(***************************************************************************)
(* State.                                                                  *)
(*   sync_state  the module-level dict (line 39); progress holds a         *)
(*               reference into heap, NoProgress for None                  *)
(*   heap        the progress dicts, one per job body that created one     *)
(*   jobs        the job bodies scheduled by add_task: position and locals *)
(*   http        the event loop: the handler in progress and its response  *)
(*   seen        the values sync_state held since the status read began    *)
(*   scenario    how the clients and the tool behave in this run of the    *)
(*               service; it bounds the inputs and never changes:          *)
(*                 "overlap"  a start may arrive at any time, nobody reads *)
(*                            the status; the tool prints file and         *)
(*                            directory lines and exits with 0 or 23       *)
(*                 "status"   as "overlap", but the status is read at any  *)
(*                            time and a start arrives only when no job    *)
(*                            body is pending                              *)
(*                 "setup"    a start arrives only when no job body is     *)
(*                            pending, nobody reads the status; the file   *)
(*                            system and the disk may do anything the      *)
(*                            input sets above hold, the tool is as in     *)
(*                            "overlap"                                    *)
(*                 "tool"     as "setup", but the setup meets what it      *)
(*                            meets in "overlap" and the tool may print    *)
(*                            and exit with anything the input sets hold   *)
(***************************************************************************)
VARIABLES sync_state, heap, jobs, http, seen, scenario

vars == <<sync_state, heap, jobs, http, seen, scenario>>

Scenarios == {"overlap", "status", "setup", "tool"}

SetupIn ==
    IF scenario = "setup" THEN SetupInputs
    ELSE {GoodSetup, [GoodSetup EXCEPT !.empty = TRUE], [GoodSetup EXCEPT !.tool = FALSE]}

LinesIn == IF scenario = "tool" THEN StdoutLines ELSE {FileLine, DirLine}

ExitsIn ==
    IF scenario = "tool" THEN ExitCodes \X StderrTexts ELSE {0, 23} \X {<<>>}

Pending(js) == {k \in JobIds : js[k].pc \notin {"idle", "done"}}

\* when a POST /sync may arrive
StartMayArrive == scenario = "overlap" \/ Pending(jobs) = {}

\* when a GET /status may arrive
StatusMayArrive == scenario = "status"

NoDict == [current_file |-> None, files_completed |-> 0, total_files |-> 0, percentage |-> 0]

NoMsg == Msg("", 0)

NoJob ==
    [pc |-> "idle", total_files |-> 0, files_completed |-> 0, stdout_lines |-> <<>>,
     err |-> NoMsg, returncode |-> 0, stderr |-> <<>>,
     launches |-> 0, dest_created |-> FALSE, probed |-> FALSE, source_empty |-> FALSE,
     passed |-> <<>>, disk |-> None, probe_denied |-> FALSE, query_failed |-> FALSE,
     terminal_writes |-> 0]

IdleHttp ==
    [pc |-> "idle", kind |-> "none", tool |-> FALSE, src |-> FALSE, saw_running |-> FALSE,
     code |-> 0, scheduled |-> 0,
     cap_running |-> FALSE, cap_progress |-> NoProgress, cap_last_sync |-> None,
     r_current_file |-> None, r_files_completed |-> 0, r_total_files |-> 0,
     r_percentage |-> 0]

\* the value of sync_state with the progress reference followed
Snapshot(ss, hp) ==
    [is_running |-> ss.is_running,
     progress |-> IF ss.progress = NoProgress THEN None ELSE Some(hp[ss.progress]),
     last_sync |-> ss.last_sync]

\* the "sync" part of the GET /status response as it is serialised
StatusBody(h) ==
    [is_running |-> h.cap_running,
     progress |-> IF h.cap_progress = NoProgress THEN None
                  ELSE Some([current_file |-> h.r_current_file,
                             files_completed |-> h.r_files_completed,
                             total_files |-> h.r_total_files,
                             percentage |-> h.r_percentage]),
     last_sync |-> h.cap_last_sync]

\* a progress dict nothing refers to any more is gone
Collect(hp, ss, h) ==
    [k \in JobIds |-> IF k = ss.progress \/ k = h.cap_progress THEN hp[k] ELSE NoDict]

\* snapshots are collected from the status read up to the response
Observe ==
    seen' = IF http'.kind # "status" THEN {}
            ELSE IF http.pc = "responded" THEN seen
            ELSE seen \cup {Snapshot(sync_state', heap')}

Init ==
    /\ sync_state = [is_running |-> FALSE, progress |-> NoProgress, last_sync |-> None]
    /\ heap = [k \in JobIds |-> NoDict]
    /\ jobs = [k \in JobIds |-> NoJob]
    /\ http = IdleHttp
    /\ seen = {}
    /\ scenario \in Scenarios

(***************************************************************************)
(* The job body, run_sync_background (lines 113-261).  A step of the model *)
(* is the statements up to and including the next access to sync_state:    *)
(* what comes before it touches only locals, the file system and the child *)
(* process of this job body.                                               *)
(***************************************************************************)
JobStep(j, job, ss, hp) ==
    /\ jobs' = [jobs EXCEPT ![j] = job]
    /\ sync_state' = ss
    /\ http' = http
    /\ heap' = Collect(hp, ss, http)
    /\ scenario' = scenario
    /\ Observe

\* the body returns behind a terminal write: the locals are gone, what it did
\* in the world stays
Returned(job) ==
    [job EXCEPT !.pc = "done", !.terminal_writes = @ + 1,
                !.total_files = 0, !.files_completed = 0,
                !.stdout_lines = <<>>, !.err = NoMsg, !.returncode = 0, !.stderr = <<>>,
                !.passed = <<>>, !.disk = None, !.probe_denied = FALSE,
                !.query_failed = FALSE]

EmptyResult ==
    [status |-> "success", message |-> Msg("Source is empty - nothing to sync", 0),
     files_transferred |-> 0, warnings |-> <<"Source directory is empty">>]

\* FailedResult with a fixed message in place of str(e)
FailedResultGeneric(msg) ==
    [status |-> "failed", message |-> Msg("Sync failed", 0), files_transferred |-> 0,
     warnings |-> None]

\* lines 250-261: the handler's result for raise Exception(msg)
FailedResult(msg) ==
    [status |-> "failed", message |-> msg, files_transferred |-> 0, warnings |-> None]

\* TerminalWrite that leaves the progress dict in place
TerminalWriteKeepsProgress(ss, result) ==
    [ss EXCEPT !.is_running = FALSE, !.last_sync = Some(result)]

\* TerminalWrite that records the result but leaves is_running set
TerminalWriteStaysRunning(ss, result) ==
    [ss EXCEPT !.progress = NoProgress, !.last_sync = Some(result)]

\* TerminalWrite that leaves last_sync as it was
TerminalWriteKeepsLastSync(ss, result) ==
    [ss EXCEPT !.is_running = FALSE, !.progress = NoProgress]

\* the terminal write under sync_lock (lines 147-156, 239-248, 252-261)
TerminalWrite(ss, result) ==
    [ss EXCEPT !.is_running = FALSE, !.progress = NoProgress, !.last_sync = Some(result)]

\* RunningWrite that also forgets the previous run's result
RunningWriteDropsLastSync(ss, j) ==
    [ss EXCEPT !.is_running = TRUE, !.progress = j, !.last_sync = None]

\* lines 120-129: the write under sync_lock that marks the run as running;
\* progress refers to the fresh dict of job body j
RunningWrite(ss, j) == [ss EXCEPT !.is_running = TRUE, !.progress = j]

\* lines 118-129: count_source_files never raises; then the write under the lock
JobBegin(j) ==
    /\ jobs[j].pc = "scheduled"
    /\ \E n \in 0..MaxTotal :
         JobStep(j, [jobs[j] EXCEPT !.pc = "setup", !.total_files = n],
                 RunningWrite(sync_state, j),
                 [heap EXCEPT ![j] = [NoDict EXCEPT !.total_files = n]])

\* the steps of the setup, in the order of lines 133-170
SetupSteps == <<"tool", "source", "nonempty", "mkdir", "probe", "disk">>

Passed(n) == SubSeq(SetupSteps, 1, n)

\* LowDisk with the threshold at a quarter of a GB
LowDiskQuarter(free_gb) == 2 * free_gb < MinFreeGbHundredths

\* line 169: disk["free_gb"] < 0.5, free_gb in hundredths of a GB
LowDisk(free_gb) == free_gb < MinFreeGbHundredths

\* SetupOutcome with the emptiness check moved behind the write probe
SetupOutcomeEmptyLate(tool, src, empty, mkdir_ok, probe, free_gb, popen_ok) ==
    LET did == [dest_created |-> FALSE, probed |-> FALSE, launches |-> 0,
                source_empty |-> FALSE, msg |-> NoMsg, passed |-> <<>>, disk |-> None,
                probe_denied |-> FALSE]
        dest == [did EXCEPT !.dest_created = TRUE, !.probed = TRUE]
    IN  IF ~tool
        THEN [did EXCEPT !.msg = Msg("rsync not installed", 0)] @@ [end |-> "raise"]
        ELSE IF ~src
        THEN [did EXCEPT !.msg = Msg("Source not found", 0), !.passed = Passed(1)]
             @@ [end |-> "raise"]
        ELSE IF ~mkdir_ok
        THEN [did EXCEPT !.msg = Msg("OSError: mkdir", 0), !.passed = Passed(2)]
             @@ [end |-> "raise"]
        ELSE IF probe = "permission"
        THEN [dest EXCEPT !.msg = Msg("Cannot write to destination", 0),
                          !.passed = Passed(2) \o <<"mkdir">>, !.probe_denied = TRUE]
             @@ [end |-> "raise"]
        ELSE IF probe = "oserror"
        THEN [dest EXCEPT !.msg = Msg("OSError: touch", 0),
                          !.passed = Passed(2) \o <<"mkdir">>] @@ [end |-> "raise"]
        ELSE IF empty
        THEN [dest EXCEPT !.source_empty = TRUE,
                          !.passed = Passed(2) \o <<"mkdir", "probe">>]
             @@ [end |-> "empty"]
        ELSE IF LowDisk(free_gb)
        THEN [dest EXCEPT !.msg = Msg("Low disk space: only GB free", free_gb),
                          !.passed = Passed(5), !.disk = Some(free_gb)]
             @@ [end |-> "raise"]
        ELSE IF ~popen_ok
        THEN [dest EXCEPT !.msg = Msg("OSError: Popen", 0),
                          !.passed = Passed(6), !.disk = Some(free_gb)] @@ [end |-> "raise"]
        ELSE [dest EXCEPT !.launches = 1, !.passed = Passed(6), !.disk = Some(free_gb)]
             @@ [end |-> "stream"]

\* lines 133-180 in order: where the setup ends, what it did on the way, the
\* checks it passed and the disk statistics it got
SetupOutcome(tool, src, empty, mkdir_ok, probe, free_gb, popen_ok) ==
    LET did == [dest_created |-> FALSE, probed |-> FALSE, launches |-> 0,
                source_empty |-> FALSE, msg |-> NoMsg, passed |-> <<>>, disk |-> None,
                probe_denied |-> FALSE]
        dest == [did EXCEPT !.dest_created = TRUE, !.probed = TRUE]
    IN  IF ~tool
        THEN [did EXCEPT !.msg = Msg("rsync not installed", 0)] @@ [end |-> "raise"]
        ELSE IF ~src
        THEN [did EXCEPT !.msg = Msg("Source not found", 0), !.passed = Passed(1)]
             @@ [end |-> "raise"]
        ELSE IF empty
        THEN [did EXCEPT !.source_empty = TRUE, !.passed = Passed(2)] @@ [end |-> "empty"]
        ELSE IF ~mkdir_ok
        THEN [did EXCEPT !.msg = Msg("OSError: mkdir", 0), !.passed = Passed(3)]
             @@ [end |-> "raise"]
        ELSE IF probe = "permission"
        THEN [dest EXCEPT !.msg = Msg("Cannot write to destination", 0),
                          !.passed = Passed(4), !.probe_denied = TRUE] @@ [end |-> "raise"]
        ELSE IF probe = "oserror"
        THEN [dest EXCEPT !.msg = Msg("OSError: touch", 0), !.passed = Passed(4)]
             @@ [end |-> "raise"]
        ELSE IF LowDisk(free_gb)
        THEN [dest EXCEPT !.msg = Msg("Low disk space: only GB free", free_gb),
                          !.passed = Passed(5), !.disk = Some(free_gb)]
             @@ [end |-> "raise"]
        ELSE IF ~popen_ok
        THEN [dest EXCEPT !.msg = Msg("OSError: Popen", 0),
                          !.passed = Passed(6), !.disk = Some(free_gb)] @@ [end |-> "raise"]
        ELSE [dest EXCEPT !.launches = 1, !.passed = Passed(6), !.disk = Some(free_gb)]
             @@ [end |-> "stream"]

\* lines 133-183: to the first stdout line, to the empty-source exit, or to
\* the handler of line 250
JobSetup(j) ==
    /\ jobs[j].pc = "setup"
    /\ \E in \in SetupIn :
         LET o == SetupOutcome(in.tool, in.src, in.empty, in.mkdir_ok, in.probe,
                               FreeGb(in.query_ok, in.free_mb), in.popen_ok)
             job == [jobs[j] EXCEPT !.dest_created = o.dest_created, !.probed = o.probed,
                                    !.launches = @ + o.launches,
                                    !.source_empty = o.source_empty,
                                    !.passed = o.passed, !.disk = o.disk,
                                    !.probe_denied = o.probe_denied,
                                    !.query_failed = o.disk # None /\ ~in.query_ok]
         IN  IF o.end = "stream"
             THEN JobStep(j, [job EXCEPT !.pc = "stream", !.stdout_lines = <<>>,
                                         !.files_completed = 0],
                          sync_state, heap)
             ELSE IF o.end = "empty"
             THEN JobStep(j, [job EXCEPT !.pc = "empty_exit"], sync_state, heap)
             ELSE JobStep(j, [job EXCEPT !.pc = "raised", !.err = o.msg], sync_state, heap)

\* lines 146-157
JobEmptyExit(j) ==
    /\ jobs[j].pc = "empty_exit"
    /\ JobStep(j, Returned(jobs[j]), TerminalWrite(sync_state, EmptyResult), heap)

\* lines 250-261
JobExcept(j) ==
    /\ jobs[j].pc = "raised"
    /\ JobStep(j, Returned(jobs[j]),
               TerminalWrite(sync_state, FailedResult(jobs[j].err)), heap)

\* lines 189-194: the update of whatever dict sync_state refers to now
ProgressUpdate(hp, ss, line_stripped, files_completed, total_files) ==
    IF ss.progress # NoProgress
    THEN [hp EXCEPT ![ss.progress] =
            [@ EXCEPT !.current_file = Some(Truncate(line_stripped)),
                      !.files_completed = files_completed,
                      !.percentage = IF total_files > 0
                                     THEN Percentage(files_completed, total_files)
                                     ELSE @]]
    ELSE hp

\* lines 184-194: one stdout line
JobReadLine(j) ==
    /\ jobs[j].pc = "stream"
    /\ Len(jobs[j].stdout_lines) < MaxLines
    /\ \E line \in LinesIn :
         LET read == [jobs[j] EXCEPT !.stdout_lines = Append(@, line)]
         IN  IF Qualifies(line)
             THEN JobStep(j, [read EXCEPT !.files_completed = @ + 1], sync_state,
                          ProgressUpdate(heap, sync_state, Strip(line),
                                         jobs[j].files_completed + 1, jobs[j].total_files))
             ELSE JobStep(j, read, sync_state, heap)

\* lines 184, 196-197: reading the pipes raises
JobStreamError(j) ==
    /\ jobs[j].pc = "stream"
    /\ JobStep(j, [jobs[j] EXCEPT !.pc = "raised", !.err = Msg("OSError: read", 0)],
               sync_state, heap)

\* lines 199-237: the result of a run whose tool has exited
TerminalResult(stdout_lines, returncode, stderr) ==
    LET c == ClassifyOutcome(returncode, stderr)
    IN  [status |-> c.status, message |-> c.message,
         files_transferred |-> ExtractTransferred(Join(stdout_lines), stderr),
         warnings |-> c.warnings]

\* every stdout the tool may print within the bound
LineSeqs == UNION {[1..n -> StdoutLines] : n \in 0..MaxLines}

\* TerminalResult tabulated over the inputs, so that it is worked out once
\* (@@ makes the table an explicit one)
TerminalResultOf ==
    [stdout_lines \in LineSeqs, exit \in ExitCodes \X StderrTexts |->
        TerminalResult(stdout_lines, exit[1], exit[2])] @@ <<>>

\* lines 196-200: end of stdout, the child has exited
JobExit(j) ==
    /\ jobs[j].pc = "stream"
    /\ \E exit \in ExitsIn :
         JobStep(j, [jobs[j] EXCEPT !.pc = "write", !.returncode = exit[1],
                                    !.stderr = exit[2]],
                 sync_state, heap)

\* lines 204-248: classification, transferred count, terminal write
JobFinish(j) ==
    /\ jobs[j].pc = "write"
    /\ JobStep(j, Returned(jobs[j]),
               TerminalWrite(sync_state,
                             TerminalResultOf[jobs[j].stdout_lines,
                                              <<jobs[j].returncode, jobs[j].stderr>>]),
               heap)

(***************************************************************************)
(* The handlers.  They are coroutines without an await, so the event loop  *)
(* runs one at a time; the job bodies run on threads beside them.          *)
(***************************************************************************)
HttpStep(h, js) ==
    /\ http' = h
    /\ sync_state' = sync_state
    /\ jobs' = js
    /\ heap' = Collect(heap, sync_state, h)
    /\ scenario' = scenario
    /\ Observe

\* StartOutcome with the tool and source checks ahead of the is_running check
StartOutcomeToolFirst(is_running, tool, src) ==
    IF ~tool THEN 500
    ELSE IF ~src THEN 404
    ELSE IF is_running THEN 409
    ELSE 200

\* lines 266-284: the order in which sync_folders decides
StartOutcome(is_running, tool, src) ==
    IF is_running THEN 409
    ELSE IF ~tool THEN 500
    ELSE IF ~src THEN 404
    ELSE 200

FreeSlot ==
    CHOOSE k \in JobIds :
        jobs[k].pc = "idle" /\ \A i \in JobIds : jobs[i].pc = "idle" => k <= i

\* Rejected with the task added before the checks
RejectedSchedules(js, new) == [js EXCEPT ![new] = [NoJob EXCEPT !.pc = "scheduled"]]

\* lines 268-274: a raise HTTPException leaves the task list as it was
Rejected(js, new) == js

\* line 276: add_task
Scheduled(js, new) == [js EXCEPT ![new] = [NoJob EXCEPT !.pc = "scheduled"]]

\* lines 264-284
SyncFolders ==
    /\ http.pc = "idle"
    /\ StartMayArrive
    /\ \E k \in JobIds : jobs[k].pc = "idle"
    /\ \E tool \in BOOLEAN, src \in BOOLEAN :
         LET code == StartOutcome(sync_state.is_running, tool, src)
         IN  HttpStep([IdleHttp EXCEPT !.pc = "responded", !.kind = "sync",
                                       !.tool = tool, !.src = src,
                                       !.saw_running = sync_state.is_running,
                                       !.code = code,
                                       !.scheduled = IF code = 200 THEN FreeSlot ELSE 0],
                      IF code = 200 THEN Scheduled(jobs, FreeSlot)
                      ELSE Rejected(jobs, FreeSlot))

\* lines 321-326: the references are copied under the lock
StatusRequest ==
    /\ http.pc = "idle"
    /\ StatusMayArrive
    /\ HttpStep([IdleHttp EXCEPT !.kind = "status",
                                 !.cap_running = sync_state.is_running,
                                 !.cap_progress = sync_state.progress,
                                 !.cap_last_sync = sync_state.last_sync,
                                 !.code = IF sync_state.progress = NoProgress THEN 200 ELSE 0,
                                 !.pc = IF sync_state.progress = NoProgress
                                        THEN "responded" ELSE "status_current_file"],
                jobs)

\* lines 328-335: the response is serialised after the lock is released, one
\* key of the captured progress dict at a time, in the dict's order
StatusReadCurrentFile ==
    /\ http.pc = "status_current_file"
    /\ HttpStep([http EXCEPT !.pc = "status_files_completed",
                             !.r_current_file = heap[http.cap_progress].current_file],
                jobs)

StatusReadFilesCompleted ==
    /\ http.pc = "status_files_completed"
    /\ HttpStep([http EXCEPT !.pc = "status_percentage",
                             !.r_files_completed = heap[http.cap_progress].files_completed,
                             !.r_total_files = heap[http.cap_progress].total_files],
                jobs)

StatusReadPercentage ==
    /\ http.pc = "status_percentage"
    /\ HttpStep([http EXCEPT !.pc = "responded", !.code = 200,
                             !.r_percentage = heap[http.cap_progress].percentage],
                jobs)

\* the response is sent and the handler is gone
HttpReturn ==
    /\ http.pc = "responded"
    /\ HttpStep(IdleHttp, jobs)

Next ==
    \/ \E j \in JobIds : JobBegin(j)
    \/ \E j \in JobIds : JobSetup(j)
    \/ \E j \in JobIds : JobEmptyExit(j)
    \/ \E j \in JobIds : JobExcept(j)
    \/ \E j \in JobIds : JobReadLine(j)
    \/ \E j \in JobIds : JobStreamError(j)
    \/ \E j \in JobIds : JobExit(j)
    \/ \E j \in JobIds : JobFinish(j)
    \/ SyncFolders
    \/ StatusRequest
    \/ StatusReadCurrentFile
    \/ StatusReadFilesCompleted
    \/ StatusReadPercentage
    \/ HttpReturn

Spec == Init /\ [][Next]_vars

(***************************************************************************)
(* Fairness: a worker thread that can take its next step takes it, and the *)
(* child process exits (JobExit).  JobReadLine and JobStreamError are what *)
(* may happen before that, not what must.                                  *)
(***************************************************************************)
JobAdvance(j) ==
    \/ JobBegin(j)
    \/ JobSetup(j)
    \/ JobEmptyExit(j)
    \/ JobExcept(j)
    \/ JobExit(j)
    \/ JobFinish(j)

Fairness == \A j \in JobIds : WF_vars(JobAdvance(j))

FairSpec == Spec /\ Fairness

(***************************************************************************)
(* Properties.                                                             *)
(***************************************************************************)
Idle == ~sync_state.is_running /\ sync_state.progress = NoProgress

LastSyncIs(ss, status, message, files_transferred, warnings) ==
    /\ Len(ss.last_sync) = 1
    /\ ss.last_sync[1].status = status
    /\ ss.last_sync[1].message = message
    /\ ss.last_sync[1].files_transferred = files_transferred
    /\ ss.last_sync[1].warnings = warnings

\* the result a job body that is about to do its terminal write will write
PendingResult(job) ==
    IF job.pc = "raised" THEN FailedResult(job.err)
    ELSE IF job.pc = "empty_exit" THEN EmptyResult
    ELSE TerminalResultOf[job.stdout_lines, <<job.returncode, job.stderr>>]

\* C1: at most one job body is pending (scheduled and not yet through its
\* terminal write) at any time.
SingleFlight == Cardinality(Pending(jobs)) <= 1

\* C2: in every reachable state is_running is true exactly when progress is
\* present.
StateConsistency == sync_state.is_running <=> sync_state.progress # NoProgress

\* one of two overlapping job bodies has done its terminal write while the
\* other is still streaming
StateConsistencyWitness ==
    /\ \E j \in JobIds : jobs[j].pc = "stream"
    /\ \E j \in JobIds : jobs[j].pc = "done"
    /\ ~sync_state.is_running
    /\ sync_state.progress = NoProgress
    /\ sync_state.last_sync # None

\* C3: the step in which a job body that raised returns leaves is_running
\* false, progress absent and last_sync = (failed, the raised error's text,
\* 0 files transferred, no warnings).
IdleAfterFailure ==
    [][\A j \in JobIds :
          (jobs[j].pc = "raised" /\ jobs'[j].pc = "done")
          => /\ ~sync_state'.is_running
             /\ sync_state'.progress = NoProgress
             /\ LastSyncIs(sync_state', "failed", jobs[j].err, 0, None)]_vars

IdleAfterFailureWitness ==
    /\ \E j \in JobIds : jobs[j].pc = "done" /\ jobs[j].probed /\ jobs[j].launches = 0
    /\ Idle
    /\ LastSyncIs(sync_state, "failed", Msg("Low disk space: only GB free", 25), 0, None)

\* C4: under fair scheduling every scheduled job body reaches its end, the
\* step that ends it leaves is_running false, progress absent and last_sync
\* equal to that run's result, and whenever no job body is pending the state
\* is Idle.
ReturnToIdle ==
    /\ \A j \in JobIds : (jobs[j].pc = "scheduled") ~> (jobs[j].pc = "done")
    /\ [][\A j \in JobIds :
             (jobs[j].pc # "done" /\ jobs'[j].pc = "done")
             => /\ ~sync_state'.is_running
                /\ sync_state'.progress = NoProgress
                /\ sync_state'.last_sync = Some(PendingResult(jobs[j]))]_vars
    /\ [](Pending(jobs) = {} => Idle)

ReturnToIdleWitness ==
    /\ \A j \in JobIds : jobs[j].pc = "done"
    /\ \E j \in JobIds : jobs[j].launches = 1
    /\ Idle
    /\ sync_state.last_sync # None

SnapshotConsistent ==
    (http.pc = "responded" /\ http.kind = "status") => StatusBody(http) \in seen

\* C7: whenever progress is present its percentage is within 0..99, and it
\* is 0 when total_files is 0.
PercentageBound ==
    sync_state.progress # NoProgress
    => /\ heap[sync_state.progress].percentage >= 0
       /\ heap[sync_state.progress].percentage <= 99
       /\ (heap[sync_state.progress].total_files = 0
           => heap[sync_state.progress].percentage = 0)

\* C8: the response of sync_folders is 409 exactly when is_running was set,
\* else 500 exactly when the tool is missing, else 404 exactly when the
\* source is missing, else 200: the first failing check decides.
StartOutcomeOrdering ==
    (http.pc = "responded" /\ http.kind = "sync")
    => /\ http.code = 409 <=> http.saw_running
       /\ http.code = 500 <=> (~http.saw_running /\ ~http.tool)
       /\ http.code = 404 <=> (~http.saw_running /\ http.tool /\ ~http.src)
       /\ http.code = 200 <=> (~http.saw_running /\ http.tool /\ http.src)

StartOutcomeWitness ==
    /\ http.pc = "responded"
    /\ http.kind = "sync"
    /\ http.saw_running
    /\ ~http.tool
    /\ ~http.src
    /\ http.code = 409

\* C9: a sync_folders that rejects schedules no job body and leaves
\* sync_state as it was.
RejectedStartNoEffect ==
    [][(http.pc = "idle" /\ http'.kind = "sync" /\ http'.code # 200)
       => /\ jobs' = jobs
          /\ http'.scheduled = 0
          /\ sync_state' = sync_state
          /\ heap' = heap]_vars

RejectedStartWitness ==
    /\ http.pc = "responded"
    /\ http.kind = "sync"
    /\ http.code = 404
    /\ Cardinality(Pending(jobs)) = 1
    /\ \E j \in JobIds : jobs[j].pc = "scheduled"

\* C10: the terminal write after the tool exits records the status, message
\* and warnings of the exit-code table.
ExitCodeClassification ==
    [][\A j \in JobIds :
          (jobs[j].pc = "write" /\ jobs'[j].pc = "done")
          => LET rc == jobs[j].returncode
                 r == sync_state'.last_sync[1]
                 got == <<r.status, r.message, r.warnings>>
             IN  /\ Len(sync_state'.last_sync) = 1
                 /\ rc = 0 => got = <<"success", Msg("Sync completed", 0), None>>
                 /\ rc = 3 => got = <<"failed", Msg("Permission denied", 0), None>>
                 /\ (rc = 11 /\ Contains(Lower(jobs[j].stderr), NoSpaceLeft))
                    => got = <<"failed", Msg("Disk full", 0), None>>
                 /\ (rc = 11 /\ ~Contains(Lower(jobs[j].stderr), NoSpaceLeft))
                    => got = <<"failed", Msg("Disk I/O error", 0), None>>
                 /\ rc = 23 => /\ r.status = "warning"
                               /\ r.message = Msg("Partial transfer - some files failed", 0)
                               /\ Len(r.warnings) = 1
                 /\ rc = 24 => /\ r.status = "warning"
                               /\ r.message = Msg("Files vanished during sync", 0)
                               /\ Len(r.warnings) = 1
                 /\ rc \notin {0, 3, 11, 23, 24}
                    => got = <<"failed", Msg("Rsync failed with code", rc), None>>]_vars

ExitCodeWitness ==
    /\ \E j \in JobIds : jobs[j].pc = "done" /\ jobs[j].launches = 1
    /\ Idle
    /\ Len(sync_state.last_sync) = 1
    /\ sync_state.last_sync[1].message = Msg("Disk full", 0)

\* the stdout line a step of job body j has just read, <<>> if it read none
LineRead(j) ==
    IF /\ jobs[j].pc = "stream"
       /\ jobs'[j].pc = "stream"
       /\ Len(jobs'[j].stdout_lines) = Len(jobs[j].stdout_lines) + 1
    THEN Some(jobs'[j].stdout_lines[Len(jobs'[j].stdout_lines)])
    ELSE None

\* C11: a stdout line raises files_completed by one exactly when it is not
\* blank, does not begin with a space as the tool printed it, and does not
\* end with '/' once trimmed; every other line leaves files_completed and the
\* progress dict as they were.
LineClassification ==
    [][\A j \in JobIds :
          LineRead(j) # None
          => LET line == LineRead(j)[1]
                 item == /\ Strip(line) # <<>>
                         /\ ~StartsWithSpace(line)
                         /\ ~EndsWithSlash(Strip(line))
             IN  /\ item => jobs'[j].files_completed = jobs[j].files_completed + 1
                 /\ ~item => /\ jobs'[j].files_completed = jobs[j].files_completed
                             /\ sync_state.progress # NoProgress
                                => heap'[sync_state.progress] = heap[sync_state.progress]]_vars

\* C12: from one state to the next, with progress present in both, the
\* files_completed that sync_state shows stays or grows by exactly one.
ItemsCompletedMonotone ==
    [][(sync_state.progress # NoProgress /\ sync_state'.progress # NoProgress)
       => LET before == heap[sync_state.progress].files_completed
              after == heap'[sync_state'.progress].files_completed
          IN  after = before \/ after = before + 1]_vars

\* the step is the terminal write of some job body
TerminalStep ==
    \E j \in JobIds : jobs[j].pc \in {"empty_exit", "raised", "write"} /\ jobs'[j].pc = "done"

\* C13: last_sync changes only in a step that is a job body's terminal write;
\* a step that accepts a start, one that marks a run as running and one that
\* handles a stdout line leave it as it was.
LastSyncPersistence ==
    [][/\ sync_state'.last_sync # sync_state.last_sync => TerminalStep
       /\ (http.pc = "idle" /\ http'.kind = "sync")
          => sync_state'.last_sync = sync_state.last_sync
       /\ (\E j \in JobIds : jobs[j].pc = "scheduled" /\ jobs'[j].pc = "setup")
          => sync_state'.last_sync = sync_state.last_sync
       /\ (\E j \in JobIds : LineRead(j) # None)
          => sync_state'.last_sync = sync_state.last_sync]_vars

\* the next run has reported an item and the previous run's result is still
\* there
LastSyncPersistenceWitness ==
    /\ \E j \in JobIds : jobs[j].pc = "done"
    /\ \E j \in JobIds : jobs[j].pc = "stream" /\ jobs[j].files_completed >= 1
    /\ sync_state.is_running
    /\ sync_state.progress # NoProgress
    /\ heap[sync_state.progress].files_completed >= 1
    /\ Len(sync_state.last_sync) = 1
    /\ sync_state.last_sync[1].status = "warning"

\* the stdout lines that line 187 lets through, in the order read
Qualifying(lines) == SelectSeq(lines, Qualifies)

\* C14: while a job body that has read k >= 1 qualifying lines is between its
\* running write and its terminal write, progress is present, shows
\* files_completed = k and shows as current_file the trimmed k-th qualifying
\* line cut to its first 100 characters.
ProgressFollowsLines ==
    \A j \in JobIds :
        LET items == Qualifying(jobs[j].stdout_lines)
            k == Len(items)
        IN  (jobs[j].pc \in {"stream", "write"} /\ k >= 1)
            => /\ sync_state.progress # NoProgress
               /\ heap[sync_state.progress].files_completed = k
               /\ heap[sync_state.progress].current_file = Some(Truncate(Strip(items[k])))
               /\ Len(Truncate(Strip(items[k]))) <= NameLimit

\* C15: a job body whose free-space query failed goes on to launch the tool
\* (or fails in the launch itself); the failed query does not end the run.
DiskQueryFailureNonFatal ==
    [][\A j \in JobIds :
          (jobs[j].pc = "setup" /\ jobs'[j].query_failed)
          => \/ jobs'[j].pc = "stream" /\ jobs'[j].launches = 1
             \/ jobs'[j].pc = "raised" /\ jobs'[j].err = Msg("OSError: Popen", 0)]_vars

LowDiskMsg(free_gb) == Msg("Low disk space: only GB free", free_gb)

OneTerminalWrite ==
    /\ [](\A j \in JobIds :
            /\ jobs[j].launches <= 1
            /\ jobs[j].terminal_writes = IF jobs[j].pc = "done" THEN 1 ELSE 0)
    /\ \A j \in JobIds : (jobs[j].pc = "scheduled") ~> (jobs[j].terminal_writes = 1)
    /\ [][\A j \in JobIds :
             jobs'[j].terminal_writes # jobs[j].terminal_writes
             => /\ jobs'[j].terminal_writes = 1
                /\ ~sync_state'.is_running
                /\ sync_state'.progress = NoProgress
                /\ sync_state'.last_sync = Some(PendingResult(jobs[j]))]_vars
    /\ [][sync_state' # sync_state
          => \E j \in JobIds : jobs[j].pc \notin {"idle", "done"} /\ jobs'[j] # jobs[j]]_vars
    /\ [][(sync_state.is_running /\ ~sync_state'.is_running)
          => \E j \in JobIds :
                /\ jobs[j].pc \in {"empty_exit", "raised", "write"}
                /\ jobs'[j].pc = "done"
                /\ sync_state'.last_sync = Some(PendingResult(jobs[j]))]_vars

\* a run whose tool failed is through after one launch and one terminal
\* write, and so is the run started after it
OneTerminalWriteWitness ==
    /\ \A j \in JobIds : jobs[j].pc = "done" /\ jobs[j].terminal_writes = 1
    /\ \E j \in JobIds : jobs[j].launches = 1
    /\ \E j \in JobIds : jobs[j].launches = 0
    /\ Idle
    /\ LastSyncIs(sync_state, "failed", Msg("Rsync failed with code", 99), 0, None)

\* C18: the files_transferred of the terminal write after the tool exits is
\* the integer on the last line of stdout followed by stderr that holds the
\* label, and 0 if no line holds the label or that line's value does not
\* parse.
TransferredCount ==
    [][\A j \in JobIds :
          (jobs[j].pc = "write" /\ jobs'[j].pc = "done")
          => LET lines == Split(Join(jobs[j].stdout_lines) \o jobs[j].stderr, "\n")
                 labelled == {i \in 1..Len(lines) : Contains(lines[i], TransferredLabel)}
                 last == CHOOSE i \in labelled : \A k \in labelled : k <= i
                 value == Strip(Split(lines[last], ":")[2])
             IN  /\ Len(sync_state'.last_sync) = 1
                 /\ sync_state'.last_sync[1].files_transferred =
                        IF labelled = {} THEN 0
                        ELSE IF IntParses(value) THEN IntValue(value)
                        ELSE 0]_vars

\* C19: whenever a job body is between its running write and its terminal
\* write, is_running is true and progress is present (so that sync_folders,
\* which answers 409 exactly when it finds is_running set, refuses a start).
RunningCoversRun ==
    (\E j \in JobIds : jobs[j].pc \in {"setup", "stream", "write", "raised", "empty_exit"})
    => /\ sync_state.is_running
       /\ sync_state.progress # NoProgress

====
